---- MODULE Spec2Model ----
(***************************************************************************)
(* Keybinding conflict scanner (rhslvkf/keybinding-conflict-scanner).     *)
(*                                                                         *)
(* Strings of the program are sequences of one-character strings, so that *)
(* toLowerCase, trim, split and join are computed as JavaScript computes  *)
(* them.                                                                   *)
(***************************************************************************)
EXTENDS Integers, Sequences, FiniteSets, TLC

(***************************************************************************)
(* Bounds of the model.                                                    *)
(***************************************************************************)
\* longest '+'-separated combination drawn as a normalizer input
MaxParts == 3
\* most sub-combinations of a chord drawn as a normalizer input
MaxChord == 2
\* most keybinding entries contributed by all manifests together
MaxEntries == 3
\* most records in the user's keybindings.json
MaxOverrides == 1
\* the records keybindings.json holds after a write of the resolver, at most
MaxRecords == 3
\* most setTimeout callbacks pending at a time
MaxTimers == 1

(***************************************************************************)
(* JavaScript string primitives.                                           *)
(***************************************************************************)
Absent == [kind |-> "undefined"]

UpperChars ==
  <<"A","B","C","D","E","F","G","H","I","J","K","L","M",
    "N","O","P","Q","R","S","T","U","V","W","X","Y","Z">>

LowerChars ==
  <<"a","b","c","d","e","f","g","h","i","j","k","l","m",
    "n","o","p","q","r","s","t","u","v","w","x","y","z">>

LowerChar(c) ==
  IF \E i \in DOMAIN UpperChars : UpperChars[i] = c
  THEN LowerChars[CHOOSE i \in DOMAIN UpperChars : UpperChars[i] = c]
  ELSE c

UpperChar(c) ==
  IF \E i \in DOMAIN LowerChars : LowerChars[i] = c
  THEN UpperChars[CHOOSE i \in DOMAIN LowerChars : LowerChars[i] = c]
  ELSE c

RECURSIVE toLowerCase(_)
toLowerCase(s) ==
  IF s = <<>> THEN <<>> ELSE <<LowerChar(Head(s))>> \o toLowerCase(Tail(s))

RECURSIVE toUpperCase(_)
toUpperCase(s) ==
  IF s = <<>> THEN <<>> ELSE <<UpperChar(Head(s))>> \o toUpperCase(Tail(s))

IsWhiteSpace(c) == c \in {" ", "\t"}

RECURSIVE trimStart(_)
trimStart(s) ==
  IF s # <<>> /\ IsWhiteSpace(Head(s)) THEN trimStart(Tail(s)) ELSE s

RECURSIVE trimEnd(_)
trimEnd(s) ==
  IF s # <<>> /\ IsWhiteSpace(s[Len(s)])
  THEN trimEnd(SubSeq(s, 1, Len(s) - 1))
  ELSE s

trim(s) == trimEnd(trimStart(s))

includes(s, c) == \E i \in DOMAIN s : s[i] = c

\* s.split(sep) for a one-character separator: "" splits to [""], and two
\* adjacent separators give an empty element.
RECURSIVE split(_, _)
split(s, sep) ==
  IF s = <<>> THEN << <<>> >>
  ELSE LET rest == split(Tail(s), sep)
       IN  IF Head(s) = sep THEN << <<>> >> \o rest
           ELSE << <<Head(s)>> \o Head(rest) >> \o Tail(rest)

\* parts.join(sep): the empty array joins to "".
RECURSIVE join(_, _)
join(parts, sep) ==
  IF parts = <<>> THEN <<>>
  ELSE IF Len(parts) = 1 THEN parts[1]
  ELSE parts[1] \o <<sep>> \o join(Tail(parts), sep)

\* array.indexOf(x): 0-based, -1 when x is not an element.
indexOf(array, x) ==
  IF \E i \in DOMAIN array : array[i] = x
  THEN (CHOOSE i \in DOMAIN array :
          array[i] = x /\ \A h \in 1..(i - 1) : array[h] # x) - 1
  ELSE -1

RECURSIVE map(_, _)
map(f(_), s) ==
  IF s = <<>> THEN <<>> ELSE <<f(Head(s))>> \o map(f, Tail(s))

Range(s) == {s[i] : i \in DOMAIN s}

(***************************************************************************)
(* The words of the key vocabulary.                                        *)
(***************************************************************************)
ctrl == <<"c","t","r","l">>
cmd == <<"c","m","d">>
alt == <<"a","l","t">>
shift == <<"s","h","i","f","t">>
meta == <<"m","e","t","a">>
win == <<"w","i","n">>
command == <<"c","o","m","m","a","n","d">>
option == <<"o","p","t","i","o","n">>
control == <<"c","o","n","t","r","o","l">>

(***************************************************************************)
(* KeybindingScanner: the key normalizer.                                  *)
(***************************************************************************)
modifierOrder == <<ctrl, cmd, alt, shift, meta, win>>

isModifierKey(key) ==
  toLowerCase(key) \in
    {ctrl, cmd, alt, shift, meta, win, command, option, control}

\* the comparator of modifiers.sort: indexA - indexB
compareModifiers(a, b) == indexOf(modifierOrder, a) - indexOf(modifierOrder, b)

\* Array.prototype.sort is stable: an element goes after every element that
\* does not compare greater than it.
RECURSIVE insertModifier(_, _)
insertModifier(sorted, x) ==
  IF sorted = <<>> THEN <<x>>
  ELSE IF compareModifiers(Head(sorted), x) > 0 THEN <<x>> \o sorted
  ELSE <<Head(sorted)>> \o insertModifier(Tail(sorted), x)

RECURSIVE reverseModifiers(_)
reverseModifiers(modifiers) ==
  IF modifiers = <<>> THEN <<>>
  ELSE reverseModifiers(Tail(modifiers)) \o <<Head(modifiers)>>

RECURSIVE sortModifiers(_)
sortModifiers(modifiers) ==
  IF modifiers = <<>> THEN <<>>
  ELSE insertModifier(sortModifiers(SubSeq(modifiers, 1, Len(modifiers) - 1)),
                      modifiers[Len(modifiers)])

\* the last part that is no modifier, "" when every part is one
RECURSIVE lastMainKey(_)
lastMainKey(parts) ==
  IF parts = <<>> THEN <<>>
  ELSE IF ~isModifierKey(parts[Len(parts)]) THEN parts[Len(parts)]
  ELSE lastMainKey(SubSeq(parts, 1, Len(parts) - 1))

normalizeSingleKey(key) ==
  LET normalized == trim(toLowerCase(key))
      parts == map(trim, split(normalized, "+"))
      modifiers == sortModifiers(SelectSeq(parts, isModifierKey))
      mainKey == lastMainKey(parts)
  IN  IF Len(parts) = 1 THEN normalized
      ELSE IF mainKey # <<>> THEN join(modifiers \o <<mainKey>>, "+")
      ELSE join(modifiers, "+")

singleKeyOnly(key) == normalizeSingleKey(key)

normalizeKey(key) ==
  LET normalized == trim(toLowerCase(key))
  IN  IF includes(normalized, " ")
      THEN join(map(normalizeSingleKey, split(normalized, " ")), " ")
      ELSE normalizeSingleKey(normalized)

(***************************************************************************)
(* JavaScript values that may be undefined, a string or an array.          *)
(***************************************************************************)
Str(s) == [kind |-> "string", value |-> s]

Arr(a) == [kind |-> "array", value |-> a]

Num(n) == [kind |-> "number", value |-> n]

Null == [kind |-> "null"]

\* JavaScript truthiness: undefined, null, "" and 0 are falsy, every array is
\* truthy
truthy(v) ==
  \/ v.kind = "array"
  \/ v.kind = "string" /\ v.value # <<>>
  \/ v.kind = "number" /\ v.value # 0

RECURSIVE flatten(_)
flatten(seqs) ==
  IF seqs = <<>> THEN <<>> ELSE Head(seqs) \o flatten(Tail(seqs))

(***************************************************************************)
(* KeybindingScanner.collectAllKeybindings                                 *)
(***************************************************************************)
\* Array.isArray(v) ? v : [v], then .filter(k => k)
keyList(v) ==
  SelectSeq(IF v.kind = "array" THEN v.value ELSE <<v.value>>,
            LAMBDA k : k # <<>>)

genericFirstKeys(kb, plat) ==
  IF truthy(kb.key) THEN keyList(kb.key)
  ELSE IF plat = "darwin" /\ truthy(kb.mac) THEN keyList(kb.mac)
  ELSE IF plat = "linux" /\ truthy(kb.linux) THEN keyList(kb.linux)
  ELSE IF plat = "win32" /\ truthy(kb.win) THEN keyList(kb.win)
  ELSE <<>>

keysToProcess(kb, plat) ==
  IF plat = "darwin" /\ truthy(kb.mac) THEN keyList(kb.mac)
  ELSE IF plat = "linux" /\ truthy(kb.linux) THEN keyList(kb.linux)
  ELSE IF plat = "win32" /\ truthy(kb.win) THEN keyList(kb.win)
  ELSE IF truthy(kb.key) THEN keyList(kb.key)
  ELSE <<>>

\* the field of the contribution that the platform tests select
fieldToProcess(kb, plat) ==
  IF plat = "darwin" /\ truthy(kb.mac) THEN kb.mac
  ELSE IF plat = "linux" /\ truthy(kb.linux) THEN kb.linux
  ELSE IF plat = "win32" /\ truthy(kb.win) THEN kb.win
  ELSE IF truthy(kb.key) THEN kb.key
  ELSE Absent

\* a selected value that is not a string reaches normalizeKey, where
\* key.toLowerCase is not a function: a TypeError leaves the collection
collectThrows(exts, plat) ==
  \E i \in DOMAIN exts :
    /\ truthy(exts[i].packageJSON.keybindings)
    /\ \E j \in DOMAIN exts[i].packageJSON.keybindings.value :
         fieldToProcess(exts[i].packageJSON.keybindings.value[j],
                        plat).kind = "number"

\* packageJSON.displayName || packageJSON.name || extensionId
extensionNameOf(extension) ==
  IF truthy(extension.packageJSON.displayName)
  THEN extension.packageJSON.displayName.value
  ELSE IF truthy(extension.packageJSON.name)
  THEN extension.packageJSON.name.value
  ELSE extension.id

bindingsOfEntry(extension, kb, plat) ==
  map(LAMBDA k : [key |-> normalizeKey(k),
                  command |-> kb.command,
                  when |-> kb.when,
                  extensionId |-> extension.id,
                  extensionName |-> extensionNameOf(extension)],
      keysToProcess(kb, plat))

bindingsOfExtension(extension, plat) ==
  IF ~truthy(extension.packageJSON.keybindings) THEN <<>>
  ELSE flatten(map(LAMBDA kb : bindingsOfEntry(extension, kb, plat),
                   extension.packageJSON.keybindings.value))

collectAllKeybindings(exts, plat) ==
  flatten(map(LAMBDA extension : bindingsOfExtension(extension, plat), exts))

(***************************************************************************)
(* KeybindingScanner.getUserDisabledCommands                               *)
(***************************************************************************)
unstrippedDisabledCommands(kb) ==
  IF truthy(kb.command) /\ Head(kb.command.value) = "-"
  THEN {kb.command.value}
  ELSE IF truthy(kb.command) /\ ~truthy(kb.key)
  THEN {kb.command.value}
  ELSE {}

\* the commands one record of keybindings.json disables
disabledCommandsOf(kb) ==
  IF truthy(kb.command) /\ Head(kb.command.value) = "-"
  THEN {Tail(kb.command.value)}
  ELSE IF truthy(kb.command) /\ ~truthy(kb.key)
  THEN {kb.command.value}
  ELSE {}

\* kb.command of null, or kb.command.startsWith of a number, is a TypeError
recordThrows(kb) ==
  IF kb = Null THEN TRUE
  ELSE truthy(kb.command) /\ kb.command.kind # "string"

\* the loop over userKeybindings: the catch block ends it at the first record
\* that throws, and disabledCommands keeps what was added before
RECURSIVE disabledUntilThrow(_)
disabledUntilThrow(userKeybindings) ==
  IF userKeybindings = <<>> THEN {}
  ELSE IF recordThrows(Head(userKeybindings)) THEN {}
  ELSE disabledCommandsOf(Head(userKeybindings))
         \cup disabledUntilThrow(Tail(userKeybindings))

\* a missing or blank file returns early; text that JSON.parse rejects and a
\* parsed value that is not iterable throw before any command is added
getUserDisabledCommands(file) ==
  IF ~file.exists THEN {}
  ELSE IF file.content.kind # "array" THEN {}
  ELSE disabledUntilThrow(file.content.value)

(***************************************************************************)
(* String.prototype.localeCompare on the characters of key strings: the    *)
(* collation order of the runtime (CLDR root order on ASCII), in which     *)
(* punctuation sorts before digits and digits before letters.              *)
(***************************************************************************)
collationOrder ==
  <<"\t", " ", "-", ",", ";", ".", "[", "]", "/", "+", "=",
    "0", "1", "2", "3", "4", "5", "6", "7", "8", "9">> \o LowerChars

RECURSIVE localeCompare(_, _)
localeCompare(a, b) ==
  IF a = <<>> /\ b = <<>> THEN 0
  ELSE IF a = <<>> THEN -1
  ELSE IF b = <<>> THEN 1
  ELSE IF indexOf(collationOrder, Head(a)) < indexOf(collationOrder, Head(b))
  THEN -1
  ELSE IF indexOf(collationOrder, Head(a)) > indexOf(collationOrder, Head(b))
  THEN 1
  ELSE localeCompare(Tail(a), Tail(b))

(***************************************************************************)
(* KeybindingScanner.findConflicts                                         *)
(***************************************************************************)
\* the keys of groupedByKey, in insertion order
RECURSIVE keysInOrder(_)
keysInOrder(bindings) ==
  IF bindings = <<>> THEN <<>>
  ELSE LET earlier == keysInOrder(SubSeq(bindings, 1, Len(bindings) - 1))
           key == bindings[Len(bindings)].key
       IN  IF key \in Range(earlier) THEN earlier ELSE Append(earlier, key)

groupedIgnoringDisabled(bindings, userDisabledCommands) ==
  map(LAMBDA k : [key |-> k,
                  bindings |-> SelectSeq(bindings, LAMBDA b : b.key = k)],
      keysInOrder(bindings))

groupedByKey(bindings, userDisabledCommands) ==
  LET live == SelectSeq(bindings,
                        LAMBDA b : b.command \notin userDisabledCommands)
  IN  map(LAMBDA k : [key |-> k,
                      bindings |-> SelectSeq(live, LAMBDA b : b.key = k)],
          keysInOrder(live))

anyGroup(bindingsForKey) == Len(bindingsForKey) > 0

anyMultiBindingGroup(bindingsForKey) ==
  Len(bindingsForKey) > 1

\* bindingsForKey.length > 1 and extensionIds.size > 1
isConflict(bindingsForKey) ==
  /\ Len(bindingsForKey) > 1
  /\ Cardinality({bindingsForKey[i].extensionId :
                    i \in DOMAIN bindingsForKey}) > 1

RECURSIVE insertConflict(_, _)
insertConflict(sorted, g) ==
  IF sorted = <<>> THEN <<g>>
  ELSE IF localeCompare(Head(sorted).key, g.key) > 0 THEN <<g>> \o sorted
  ELSE <<Head(sorted)>> \o insertConflict(Tail(sorted), g)

unsortedConflicts(groups) == groups

\* conflicts.sort((a, b) => a.key.localeCompare(b.key)), a stable sort
RECURSIVE sortConflicts(_)
sortConflicts(groups) ==
  IF groups = <<>> THEN <<>>
  ELSE insertConflict(sortConflicts(SubSeq(groups, 1, Len(groups) - 1)),
                      groups[Len(groups)])

findConflicts(bindings, userDisabledCommands) ==
  sortConflicts(SelectSeq(groupedByKey(bindings, userDisabledCommands),
                          LAMBDA g : isConflict(g.bindings)))

(***************************************************************************)
(* ConflictPresenter.validateKeybinding                                    *)
(***************************************************************************)
Digits == {"0", "1", "2", "3", "4", "5", "6", "7", "8", "9"}

Letters == Range(LowerChars)

\* String.prototype.split with a regular expression of single characters
RECURSIVE splitAny(_, _)
splitAny(s, seps) ==
  IF \A i \in DOMAIN s : s[i] \notin seps THEN <<s>>
  ELSE LET i == CHOOSE j \in DOMAIN s :
                  s[j] \in seps /\ \A k \in 1..(j - 1) : s[k] \notin seps
       IN  <<SubSeq(s, 1, i - 1)>> \o splitAny(SubSeq(s, i + 1, Len(s)), seps)

validModifiers == <<ctrl, alt, shift, cmd, meta, win>>

\* /^[a-z0-9+\s]+$/
validCharacters(normalized) ==
  /\ normalized # <<>>
  /\ \A i \in DOMAIN normalized :
       \/ normalized[i] \in Letters \cup Digits
       \/ normalized[i] = "+"
       \/ IsWhiteSpace(normalized[i])

\* /^([a-z]|f\d+|\d+|[`\-=\[\]\\;',./])$/
isValidKey(part) ==
  \/ Len(part) = 1 /\ part[1] \in Letters
  \/ /\ Len(part) > 1
     /\ part[1] = "f"
     /\ \A i \in 2..Len(part) : part[i] \in Digits
  \/ Len(part) > 0 /\ \A i \in DOMAIN part : part[i] \in Digits
  \/ /\ Len(part) = 1
     /\ part[1] \in {"-", "=", "[", "]", ";", ",", ".", "/"}

\* the parts that are neither a modifier nor a valid key, in order
invalidParts(normalized) ==
  SelectSeq(splitAny(normalized, {" ", "\t", "+"}),
            LAMBDA part : /\ part # <<>>
                          /\ indexOf(validModifiers, part) < 0
                          /\ ~isValidKey(part))

\* keys.some(k => !k.trim())
emptyKey(chord) ==
  \E i \in DOMAIN split(chord, "+") : trim(split(chord, "+")[i]) = <<>>

\* hasModifier && keys.length === 1
onlyModifier(chord) ==
  /\ \E i \in DOMAIN split(chord, "+") :
       indexOf(validModifiers, split(chord, "+")[i]) >= 0
  /\ Len(split(chord, "+")) = 1

\* allBindings.find(b => b.key === key && b.command !== command): its index,
\* or 0 when there is none
findOtherCommand(bindings, key, cmdName) ==
  LET hits == {i \in DOMAIN bindings :
                 bindings[i].key = key /\ bindings[i].command # cmdName}
  IN  IF hits = {} THEN 0 ELSE CHOOSE i \in hits : \A j \in hits : i <= j

Message(reason) ==
  [kind |-> "string", reason |-> reason, command |-> <<>>,
   extensionName |-> <<>>]

ConflictsWith(b) ==
  [kind |-> "string", reason |-> "conflict", command |-> b.command,
   extensionName |-> b.extensionName]

\* some chord fails the format check: the first failure decides the message
formatFailure(chords) ==
  IF \E i \in DOMAIN chords : emptyKey(chords[i]) \/ onlyModifier(chords[i])
  THEN LET i == CHOOSE j \in DOMAIN chords :
                  /\ emptyKey(chords[j]) \/ onlyModifier(chords[j])
                  /\ \A k \in 1..(j - 1) :
                       ~(emptyKey(chords[k]) \/ onlyModifier(chords[k]))
       IN  IF emptyKey(chords[i]) THEN "format" ELSE "onlyModifiers"
  ELSE "none"

validateKeybinding(value, currentBinding, bindings) ==
  IF trim(value) = <<>> THEN Message("empty")
  ELSE LET normalized == trim(toLowerCase(value))
           conflict == findOtherCommand(bindings, normalized,
                                        currentBinding.command)
       IN  IF ~validCharacters(normalized) THEN Message("characters")
           ELSE IF invalidParts(normalized) # <<>> THEN Message("key")
           ELSE IF formatFailure(split(normalized, " ")) # "none"
           THEN Message(formatFailure(split(normalized, " ")))
           ELSE IF conflict > 0 THEN ConflictsWith(bindings[conflict])
           ELSE Absent

(***************************************************************************)
(* ConflictResolver                                                        *)
(***************************************************************************)
\* v || undefined, for a when clause
whenOf(v) == IF v.kind = "string" /\ v.value # "" THEN v ELSE Absent

\* readKeybindingsFile: the value it returns and the file it leaves. A
\* missing file is created holding "[]"; a blank file and text that
\* JSON.parse rejects read as the empty list; any other parsed value is
\* returned as it is
readKeybindingsFile(file) ==
  IF ~file.exists
  THEN [returned |-> Arr(<<>>), file |-> [exists |-> TRUE,
                                          content |-> Arr(<<>>)]]
  ELSE IF file.content.kind \in {"blank", "invalid"}
  THEN [returned |-> Arr(<<>>), file |-> file]
  ELSE [returned |-> file.content, file |-> file]

\* the callback of findIndex on one record
sameCommandAndWhen(kb, binding) ==
  /\ kb.command = Str(binding.command)
  /\ whenOf(kb.when) = whenOf(binding.when)

\* currentKeybindings.findIndex(...): the first record that matches, or at
\* which the callback throws (kb.command of null); 0 when there is none
existingIndex(currentKeybindings, binding) ==
  LET hits == {i \in DOMAIN currentKeybindings :
                 IF currentKeybindings[i] = Null THEN TRUE
                 ELSE sameCommandAndWhen(currentKeybindings[i], binding)}
  IN  IF hits = {} THEN 0 ELSE CHOOSE i \in hits : \A j \in hits : i <= j

disableEntry(binding) ==
  [key |-> Str(<<>>), command |-> Str(binding.command),
   when |-> whenOf(binding.when)]

\* a variant of the loop body that appends in every case
appendDisableEntry(currentKeybindings, binding) ==
  Append(currentKeybindings, disableEntry(binding))

\* the body of the loop of disableKeybindings for one binding
disableOne(currentKeybindings, binding) ==
  LET existing == existingIndex(currentKeybindings, binding)
  IN  IF existing > 0
      THEN [currentKeybindings EXCEPT ![existing].key = Str(<<>>)]
      ELSE Append(currentKeybindings, disableEntry(binding))

\* the loop of disableKeybindings: the list it builds, or the TypeError
RECURSIVE disableEach(_, _)
disableEach(currentKeybindings, bindings) ==
  IF bindings = <<>> THEN [threw |-> FALSE, list |-> currentKeybindings]
  ELSE LET existing == existingIndex(currentKeybindings, Head(bindings))
       IN  IF existing > 0 /\ currentKeybindings[existing] = Null
           THEN [threw |-> TRUE, list |-> currentKeybindings]
           ELSE disableEach(disableOne(currentKeybindings, Head(bindings)),
                            Tail(bindings))

\* the two records reassignKeybinding pushes
reassignEntries(binding, normalizedNewKey) ==
  <<[key |-> Str(binding.key),
     command |-> Str(<<"-">> \o binding.command),
     when |-> whenOf(binding.when)],
    [key |-> Str(normalizedNewKey),
     command |-> Str(binding.command),
     when |-> whenOf(binding.when)]>>

(***************************************************************************)
(* The environment: key strings, manifests, the user's keybindings.json.   *)
(***************************************************************************)
kChord == ctrl \o <<"+", "k", " ">> \o ctrl \o <<"+", "s">>
kChordUpper == ctrl \o <<"+", "K", " ">> \o ctrl \o <<"+", "S">>
kSemicolon == ctrl \o <<"+", ";">>
kSlash == ctrl \o <<"+", "/">>

xSave == <<"x">>
ySave == <<"y">>

Platforms == {"darwin", "linux", "win32"}

ExtensionIds == {"pub.x", "pub.y"}

\* the manifest of an extension before it contributes a keybinding
packageJSONOf(id) ==
  IF id = "pub.x"
  THEN [displayName |-> Str(<<"X">>), name |-> Str(<<"x">>),
        keybindings |-> Absent]
  ELSE [displayName |-> Absent, name |-> Absent, keybindings |-> Absent]

entry(cmdName, when, key) ==
  [command |-> cmdName, when |-> when, key |-> key,
   mac |-> Absent, linux |-> Absent, win |-> Absent]

\* keybinding contributions that declare the generic key only
GenericEntries ==
  {entry(xSave, Absent, Str(kChord)),
   entry(xSave, Str("editorFocus"), Str(kChord)),
   entry(ySave, Absent, Str(kChordUpper)),
   entry(xSave, Absent, Arr(<<kSlash, kSemicolon>>))}

FieldValues ==
  {Absent, Str(<<>>), Str(kSlash), Arr(<<>>),
   Arr(<<kSemicolon, <<>>, kChordUpper>>)}

\* keybinding contributions with every shape of platform field
PlatformEntries ==
  [command : {xSave},
   when : {Str("editorFocus")},
   key : FieldValues, mac : FieldValues, linux : FieldValues,
   win : FieldValues]

\* records of keybindings.json
OverrideEntries ==
  {[command |-> Str(<<"-">> \o xSave), key |-> Absent, when |-> Absent],
   [command |-> Str(xSave), key |-> Str(<<>>), when |-> Str("editorFocus")],
   [command |-> Str(ySave), key |-> Str(kSlash), when |-> Absent]}

Missing == [exists |-> FALSE, content |-> [kind |-> "none"]]

FileOf(content) == [exists |-> TRUE, content |-> content]

\* keybindings.json deleted, empty, unparseable, or an empty list
EmptyFiles ==
  {Missing, FileOf([kind |-> "blank"]), FileOf([kind |-> "invalid"]),
   FileOf(Arr(<<>>))}

(***************************************************************************)
(* Inputs of the key normalizer.                                           *)
(***************************************************************************)
ModifierWords == {ctrl, cmd, alt, shift, meta, win, command, option, control}

Words == ModifierWords \cup {<<"k">>, <<"s">>}

SeqsUpTo(S, lo, hi) == UNION {[1..n -> S] : n \in lo..hi}

Combos == {join(parts, "+") : parts \in SeqsUpTo(Words, 1, MaxParts)}

\* the sub-combinations of drawn chords: up to two modifiers and a main key
ChordCombos ==
  {join(modifiers \o <<mainKey>>, "+") :
     modifiers \in SeqsUpTo({ctrl, control}, 0, 2),
     mainKey \in {<<"k">>, <<"s">>}}

Chords == {join(combos, " ") : combos \in SeqsUpTo(ChordCombos, 2, MaxChord)}

\* the keys that are drawn in other spellings too
RespelledKeys ==
  ChordCombos \cup {join(combos, " ") : combos \in [1..2 -> ChordCombos]}

PlainKeys == Combos \cup Chords

\* the key with white space ws on both sides of every '+'
RECURSIVE padPlus(_, _)
padPlus(key, ws) ==
  IF key = <<>> THEN <<>>
  ELSE IF Head(key) = "+" THEN <<ws, "+", ws>> \o padPlus(Tail(key), ws)
  ELSE <<Head(key)>> \o padPlus(Tail(key), ws)

\* the same key written in another letter case or with white space around
\* the string and around its '+'-separated parts
Respellings(key) ==
  {toUpperCase(key),
   <<" ">> \o key \o <<" ">>,
   <<" ">> \o padPlus(key, " ") \o <<" ">>,
   <<"\t">> \o padPlus(key, "\t") \o <<"\t">>}

RawSpellings(key) ==
  {key} \cup (IF key \in RespelledKeys THEN Respellings(key) ELSE {})

(***************************************************************************)
(* State.                                                                  *)
(***************************************************************************)
VARIABLES
  extensions,       \* vscode.extensions.all
  platform,         \* process.platform
  keybindingsFile,  \* the user's keybindings.json
  pc,               \* "idle", or "scanned" while a scan's result is shown
  allBindings,      \* KeybindingScanner.allBindings
  conflicts,        \* the list scanConflicts returned
  plainKey,         \* a key string
  rawKey,           \* a spelling of plainKey, the normalizer's input
  normalizedKey,    \* normalizeKey(rawKey)
  renormalizedKey,  \* normalizeKey(normalizedKey)
  validation,       \* the input box: the value typed and validateInput's answer
  resolution,       \* the last call of the resolver and how it ended
  lastKnownExtensions,    \* the module's list of extension ids
  autoDetect,             \* the setting keybindingConflictScanner.autoDetect
  timers,                 \* pending setTimeout callbacks: their newExtensions
  newExtensionIds,        \* the argument of scanNewExtensionConflicts
  newExtensionConflicts   \* the groups the automatic scan presents

vars ==
  <<extensions, platform, keybindingsFile, pc, allBindings, conflicts,
    plainKey, rawKey, normalizedKey, renormalizedKey,
    validation, resolution,
    lastKnownExtensions, autoDetect, timers, newExtensionIds,
    newExtensionConflicts>>

resolveVars == <<validation, resolution>>

autoVars ==
  <<lastKnownExtensions, autoDetect, timers, newExtensionIds,
    newExtensionConflicts>>

scanVars == <<extensions, platform, keybindingsFile, pc, allBindings, conflicts>>

normVars == <<plainKey, rawKey, normalizedKey, renormalizedKey>>

\* the manifests drawn under Spec declare no platform field, so one platform
\* stands for all; SpecCollect draws the platform
NoScan ==
  /\ extensions = <<>>
  /\ platform = "linux"
  /\ keybindingsFile = Missing
  /\ pc = "idle"
  /\ allBindings = <<>>
  /\ conflicts = <<>>

NoKey ==
  /\ plainKey = <<>>
  /\ rawKey = <<>>
  /\ normalizedKey = Absent
  /\ renormalizedKey = Absent

NoResolution ==
  /\ validation = Absent
  /\ resolution = Absent

idsOf(exts) == map(LAMBDA ext : ext.id, exts)

\* activate: lastKnownExtensions is the list of ids; no timer is pending
Activated ==
  /\ lastKnownExtensions = idsOf(extensions)
  /\ autoDetect = TRUE
  /\ timers = <<>>
  /\ newExtensionIds = <<>>
  /\ newExtensionConflicts = <<>>

Init == NoScan /\ NoKey /\ NoResolution /\ Activated

(***************************************************************************)
(* The environment's steps.                                                *)
(***************************************************************************)
entryCount ==
  Len(flatten(map(LAMBDA e : IF truthy(e.packageJSON.keybindings)
                             THEN e.packageJSON.keybindings.value ELSE <<>>,
                  extensions)))

\* an extension is installed; its manifest contributes nothing yet
InstallExtension(id) ==
  /\ pc = "idle"
  /\ id \notin {extensions[i].id : i \in DOMAIN extensions}
  /\ extensions' =
       Append(extensions, [id |-> id, packageJSON |-> packageJSONOf(id)])
  /\ UNCHANGED <<platform, keybindingsFile, pc, allBindings, conflicts>>
  /\ UNCHANGED normVars
  /\ UNCHANGED <<resolveVars, autoVars>>

\* the manifest of an installed extension gains a keybinding contribution
ContributeKeybinding(i, kb) ==
  /\ pc = "idle"
  /\ i \in DOMAIN extensions
  /\ entryCount < MaxEntries
  /\ LET old == extensions[i].packageJSON.keybindings
         new == IF truthy(old) THEN Arr(Append(old.value, kb)) ELSE Arr(<<kb>>)
     IN  extensions' =
           [extensions EXCEPT ![i].packageJSON.keybindings = new]
  /\ UNCHANGED <<platform, keybindingsFile, pc, allBindings, conflicts>>
  /\ UNCHANGED normVars
  /\ UNCHANGED <<resolveVars, autoVars>>

\* the user adds a record to keybindings.json, creating the file if needed
AppendOverride(kb) ==
  /\ pc = "idle"
  /\ LET old == IF keybindingsFile.content.kind = "array"
                THEN keybindingsFile.content.value ELSE <<>>
     IN  /\ keybindingsFile.content.kind # "invalid"
         /\ Len(old) < MaxOverrides
         /\ keybindingsFile' = FileOf(Arr(Append(old, kb)))
  /\ UNCHANGED <<extensions, platform, pc, allBindings, conflicts>>
  /\ UNCHANGED normVars
  /\ UNCHANGED <<resolveVars, autoVars>>

\* the user deletes keybindings.json, empties it, or leaves it unparseable
ReplaceKeybindingsFile(file) ==
  /\ pc = "idle"
  /\ file # keybindingsFile
  /\ keybindingsFile' = file
  /\ UNCHANGED <<extensions, platform, pc, allBindings, conflicts>>
  /\ UNCHANGED normVars
  /\ UNCHANGED <<resolveVars, autoVars>>

(***************************************************************************)
(* KeybindingScanner.scanConflicts                                         *)
(***************************************************************************)
\* the manual command; a TypeError in the collection leaves scanConflicts
\* and is caught by the command
ScanConflicts ==
  /\ pc = "idle"
  /\ IF collectThrows(extensions, platform)
     THEN /\ pc' = "failed"
          /\ UNCHANGED <<allBindings, conflicts>>
     ELSE /\ allBindings' = collectAllKeybindings(extensions, platform)
          /\ conflicts' = findConflicts(allBindings',
                                        getUserDisabledCommands(keybindingsFile))
          /\ pc' = "scanned"
  /\ UNCHANGED <<extensions, platform, keybindingsFile>>
  /\ UNCHANGED normVars
  /\ UNCHANGED <<resolveVars, autoVars>>

\* showConflicts returns undefined: the command ends, its scanner is dropped
DismissConflicts ==
  /\ pc = "scanned"
  /\ pc' = "idle"
  /\ allBindings' = <<>>
  /\ conflicts' = <<>>
  /\ UNCHANGED <<extensions, platform, keybindingsFile>>
  /\ UNCHANGED normVars
  /\ UNCHANGED <<resolveVars, autoVars>>

Next ==
  \/ \E id \in ExtensionIds : InstallExtension(id)
  \/ \E i \in 1..Cardinality(ExtensionIds), kb \in GenericEntries :
       ContributeKeybinding(i, kb)
  \/ \E kb \in OverrideEntries : AppendOverride(kb)
  \/ \E file \in EmptyFiles : ReplaceKeybindingsFile(file)
  \/ ScanConflicts
  \/ DismissConflicts

Spec == Init /\ [][Next]_vars

(***************************************************************************)
(* Collection of one contribution of every shape, on every platform.       *)
(***************************************************************************)
InitCollect ==
  /\ extensions \in
       {<<[id |-> "pub.x",
           packageJSON |->
             [packageJSONOf("pub.x") EXCEPT !.keybindings = Arr(<<kb>>)]]>> :
          kb \in PlatformEntries}
  /\ platform \in Platforms
  /\ keybindingsFile = Missing
  /\ pc = "idle"
  /\ allBindings = <<>>
  /\ conflicts = <<>>
  /\ NoKey
  /\ NoResolution
  /\ Activated

NextCollect == ScanConflicts \/ DismissConflicts

SpecCollect == InitCollect /\ [][NextCollect]_vars

(***************************************************************************)
(* The key normalizer applied to drawn key strings.                        *)
(***************************************************************************)
InitNorm ==
  /\ extensions = <<>>
  /\ platform = "linux"
  /\ keybindingsFile = Missing
  /\ pc = "idle"
  /\ allBindings = <<>>
  /\ conflicts = <<>>
  /\ plainKey \in PlainKeys
  /\ rawKey \in RawSpellings(plainKey)
  /\ normalizedKey = Absent
  /\ renormalizedKey = Absent
  /\ NoResolution
  /\ Activated

NormalizeKey ==
  /\ normalizedKey = Absent
  /\ normalizedKey' = Str(normalizeKey(rawKey))
  /\ UNCHANGED <<plainKey, rawKey, renormalizedKey>>
  /\ UNCHANGED scanVars
  /\ UNCHANGED <<resolveVars, autoVars>>

RenormalizeKey ==
  /\ normalizedKey # Absent
  /\ renormalizedKey = Absent
  /\ renormalizedKey' = Str(normalizeKey(normalizedKey.value))
  /\ UNCHANGED <<plainKey, rawKey, normalizedKey>>
  /\ UNCHANGED scanVars
  /\ UNCHANGED <<resolveVars, autoVars>>

NextNorm == NormalizeKey \/ RenormalizeKey

SpecNorm == InitNorm /\ [][NextNorm]_vars

(***************************************************************************)
(* Scans over malformed manifests and a malformed keybindings.json.        *)
(***************************************************************************)
\* contributions without a key, or whose key is a number
MalformedEntries ==
  {entry(ySave, Absent, Absent), entry(ySave, Absent, Num(5))}

ManifestEntries ==
  {entry(xSave, Absent, Str(kChord)), entry(ySave, Absent, Str(kChordUpper))}
    \cup MalformedEntries

removeX == [command |-> Str(<<"-">> \o xSave), key |-> Absent, when |-> Absent]

numberCommand == [command |-> Num(5), key |-> Str(kSlash), when |-> Absent]

\* keybindings.json deleted, empty, unparseable, parsed to an object, or
\* parsed to a list that holds null or a record whose command is a number
MalformedFiles ==
  {Missing, FileOf([kind |-> "blank"]), FileOf([kind |-> "invalid"]),
   FileOf([kind |-> "object"]),
   FileOf(Arr(<<Null>>)),
   FileOf(Arr(<<Null, removeX>>)),
   FileOf(Arr(<<removeX, Null>>)),
   FileOf(Arr(<<removeX, numberCommand>>))}

\* presenter.showError: the command that failed ends, its scanner is dropped
ShowError ==
  /\ pc = "failed"
  /\ pc' = "idle"
  /\ allBindings' = <<>>
  /\ conflicts' = <<>>
  /\ validation' = Absent
  /\ UNCHANGED <<extensions, platform, keybindingsFile, resolution>>
  /\ UNCHANGED normVars
  /\ UNCHANGED autoVars

NextMalformed ==
  \/ \E id \in ExtensionIds : InstallExtension(id)
  \/ \E i \in 1..Cardinality(ExtensionIds), kb \in ManifestEntries :
       ContributeKeybinding(i, kb)
  \/ \E file \in MalformedFiles : ReplaceKeybindingsFile(file)
  \/ ScanConflicts
  \/ DismissConflicts
  \/ ShowError

SpecMalformed == Init /\ [][NextMalformed]_vars

(***************************************************************************)
(* Resolution of the conflicts a manual scan shows.                        *)
(***************************************************************************)
kCtrlShiftK == ctrl \o <<"+">> \o shift \o <<"+", "k">>
kShiftCtrlK == shift \o <<"+">> \o ctrl \o <<"+", "k">>
kCtrlShift == ctrl \o <<"+">> \o shift
kChordOfModifiers == ctrl \o <<"+", "k", " ">> \o alt \o <<"+">> \o shift
kControlK == control \o <<"+", "k">>
kPadded == <<" ">> \o ctrl \o <<"+", "J", " ">>

\* what the user types into the input box
TypedKeys ==
  {<<>>, ctrl, kCtrlShift, kChordOfModifiers, kCtrlShiftK, kShiftCtrlK,
   kChord, kChordUpper, kSlash, kControlK, kPadded}

installed(id, keybindings) ==
  [id |-> id,
   packageJSON |-> [packageJSONOf(id) EXCEPT !.keybindings = Arr(keybindings)]]

\* installed extensions with a conflict on ctrl+k ctrl+s
ConflictingManifests ==
  {<<installed("pub.x", <<entry(xSave, Absent, Str(kChord))>>),
     installed("pub.y", <<entry(ySave, Absent, Str(kChordUpper)),
                          entry(ySave, Absent, Str(kShiftCtrlK))>>)>>,
   <<installed("pub.x", <<entry(xSave, Absent, Str(kChord)),
                          entry(xSave, Str("editorFocus"), Str(kChord))>>),
     installed("pub.y", <<entry(ySave, Absent, Str(kChordUpper))>>)>>}

rebindX == [command |-> Str(xSave), key |-> Str(kSlash), when |-> Absent]

rebindYFocused ==
  [command |-> Str(ySave), key |-> Str(kSlash), when |-> Str("editorFocus")]

\* keybindings.json before the resolution
ResolveFiles ==
  {Missing, FileOf([kind |-> "blank"]), FileOf([kind |-> "invalid"]),
   FileOf([kind |-> "object"]), FileOf(Arr(<<>>)), FileOf(Arr(<<rebindX>>)),
   FileOf(Arr(<<rebindYFocused>>)), FileOf(Arr(<<numberCommand>>)),
   FileOf(Arr(<<Null>>))}

InitResolve ==
  /\ extensions \in ConflictingManifests
  /\ platform = "linux"
  /\ keybindingsFile \in ResolveFiles
  /\ pc = "idle"
  /\ allBindings = <<>>
  /\ conflicts = <<>>
  /\ NoKey
  /\ NoResolution
  /\ Activated

\* the bindings the QuickPick lists, in order
shownBindings == flatten(map(LAMBDA g : g.bindings, conflicts))

\* the items of seq at the positions S, in order
selection(seq, S) ==
  [k \in 1..Cardinality(S) |->
     seq[CHOOSE i \in S : Cardinality({j \in S : j < i}) = k - 1]]

Resolution(op, bindings, newKey, outcome, message) ==
  [op |-> op, bindings |-> bindings, newKey |-> newKey,
   before |-> keybindingsFile, outcome |-> outcome, message |-> message]

\* the user picks one binding and "Reassign", and types a value: validateInput
ValidateKeybinding(i, value) ==
  /\ pc = "scanned"
  /\ i \in DOMAIN shownBindings
  /\ validation' =
       [binding |-> shownBindings[i], value |-> value,
        message |-> validateKeybinding(value, shownBindings[i], allBindings)]
  /\ pc' = "input"
  /\ UNCHANGED <<extensions, platform, keybindingsFile, allBindings,
                 conflicts, resolution>>
  /\ UNCHANGED normVars
  /\ UNCHANGED autoVars

\* the user picks bindings and "Disable": resolver.disableKeybindings
DisableKeybindings(S) ==
  /\ pc = "scanned"
  /\ S # {}
  /\ S \subseteq DOMAIN shownBindings
  /\ LET bindings == selection(shownBindings, S)
         read == readKeybindingsFile(keybindingsFile)
         done == IF read.returned.kind = "array"
                 THEN disableEach(read.returned.value, bindings)
                 ELSE [threw |-> TRUE, list |-> <<>>]
     IN  IF done.threw
         THEN /\ keybindingsFile' = read.file
              /\ resolution' =
                   Resolution("disable", bindings, <<>>, "failed", Absent)
              /\ pc' = "failed"
         ELSE /\ Len(done.list) <= MaxRecords
              /\ keybindingsFile' = FileOf(Arr(done.list))
              /\ resolution' =
                   Resolution("disable", bindings, <<>>, "ok", Absent)
              /\ pc' = "resolved"
  /\ UNCHANGED <<extensions, platform, allBindings, conflicts, validation>>
  /\ UNCHANGED normVars
  /\ UNCHANGED autoVars

\* resolver.reassignKeybinding(binding, newKey, allBindings)
ReassignKeybindingTo(binding, newKey) ==
  /\ LET read == readKeybindingsFile(keybindingsFile)
         normalizedNewKey == trim(toLowerCase(newKey))
         conflict == findOtherCommand(allBindings, normalizedNewKey,
                                      binding.command)
     IN  IF conflict > 0
         THEN /\ keybindingsFile' = read.file
              /\ resolution' =
                   Resolution("reassign", <<binding>>, newKey, "refused",
                              ConflictsWith(allBindings[conflict]))
              /\ pc' = "failed"
         ELSE IF read.returned.kind # "array"
         THEN /\ keybindingsFile' = read.file
              /\ resolution' =
                   Resolution("reassign", <<binding>>, newKey, "failed",
                              Absent)
              /\ pc' = "failed"
         ELSE /\ Len(read.returned.value) + 2 <= MaxRecords
              /\ keybindingsFile' =
                   FileOf(Arr(read.returned.value
                                \o reassignEntries(binding, normalizedNewKey)))
              /\ resolution' =
                   Resolution("reassign", <<binding>>, newKey, "ok", Absent)
              /\ pc' = "resolved"
  /\ UNCHANGED <<extensions, platform, allBindings, conflicts, validation>>
  /\ UNCHANGED normVars
  /\ UNCHANGED autoVars

\* the input box accepts the value typed: showConflicts returns it trimmed
ReassignKeybinding ==
  /\ pc = "input"
  /\ validation.message = Absent
  /\ ReassignKeybindingTo(validation.binding, trim(validation.value))

\* the input box is cancelled, or the resolution is summarized: the command
\* ends
EndCommand ==
  /\ pc \in {"input", "resolved"}
  /\ pc' = "idle"
  /\ allBindings' = <<>>
  /\ conflicts' = <<>>
  /\ validation' = Absent
  /\ UNCHANGED <<extensions, platform, keybindingsFile, resolution>>
  /\ UNCHANGED normVars
  /\ UNCHANGED autoVars

NextResolve ==
  \/ ScanConflicts
  \/ DismissConflicts
  \/ \E i \in 1..MaxEntries, value \in TypedKeys : ValidateKeybinding(i, value)
  \/ \E S \in SUBSET (1..MaxEntries) : DisableKeybindings(S)
  \/ ReassignKeybinding
  \/ EndCommand
  \/ ShowError

SpecResolve == InitResolve /\ [][NextResolve]_vars

(***************************************************************************)
(* ConflictResolver.reassignKeybinding called with any key.                *)
(***************************************************************************)
CallReassignKeybinding(i, newKey) ==
  /\ pc = "scanned"
  /\ i \in DOMAIN shownBindings
  /\ ReassignKeybindingTo(shownBindings[i], newKey)

NextReassign ==
  \/ ScanConflicts
  \/ DismissConflicts
  \/ \E i \in 1..MaxEntries, newKey \in TypedKeys :
       CallReassignKeybinding(i, newKey)
  \/ EndCommand
  \/ ShowError

SpecReassign == InitResolve /\ [][NextReassign]_vars

(***************************************************************************)
(* Automatic detection: the extension-change listener and its delayed      *)
(* scan of the newly installed extensions.                                 *)
(***************************************************************************)
\* the extensions the user installs after activation
InstallableIds == {"pub.z"}

\* the contributions of an extension that is installed
NewKeybindings ==
  {<<>>, <<entry(ySave, Absent, Str(kSemicolon))>>,
   <<entry(ySave, Absent, Str(kChord))>>}

\* the extensions installed at activation: none, or pub.x and pub.y with a
\* conflict on ctrl+k ctrl+s
ActivationManifests ==
  {<<>>,
   <<installed("pub.x", <<entry(xSave, Absent, Str(kChord)),
                          entry(xSave, Absent, Str(kSemicolon))>>),
     installed("pub.y", <<entry(ySave, Absent, Str(kChordUpper))>>)>>}

InitAuto ==
  /\ extensions \in ActivationManifests
  /\ platform = "linux"
  /\ keybindingsFile = Missing
  /\ pc = "idle"
  /\ allBindings = <<>>
  /\ conflicts = <<>>
  /\ NoKey
  /\ NoResolution
  /\ Activated

\* an extension is installed with its manifest
InstallExtensionWith(id, keybindings) ==
  /\ pc = "idle"
  /\ id \notin Range(idsOf(extensions))
  /\ extensions' = Append(extensions, installed(id, keybindings))
  /\ UNCHANGED <<platform, keybindingsFile, pc, allBindings, conflicts>>
  /\ UNCHANGED normVars
  /\ UNCHANGED <<resolveVars, autoVars>>

UninstallExtension(i) ==
  /\ pc = "idle"
  /\ i \in DOMAIN extensions
  /\ extensions' =
       SubSeq(extensions, 1, i - 1) \o SubSeq(extensions, i + 1, Len(extensions))
  /\ UNCHANGED <<platform, keybindingsFile, pc, allBindings, conflicts>>
  /\ UNCHANGED normVars
  /\ UNCHANGED <<resolveVars, autoVars>>

\* the user changes keybindingConflictScanner.autoDetect
SetAutoDetect(value) ==
  /\ pc = "idle"
  /\ autoDetect # value
  /\ autoDetect' = value
  /\ UNCHANGED <<lastKnownExtensions, timers, newExtensionIds,
                 newExtensionConflicts>>
  /\ UNCHANGED scanVars
  /\ UNCHANGED normVars
  /\ UNCHANGED resolveVars

\* the listener of vscode.extensions.onDidChange
OnDidChange ==
  /\ pc = "idle"
  /\ IF ~autoDetect
     THEN UNCHANGED <<lastKnownExtensions, timers>>
     ELSE LET currentExtensions == idsOf(extensions)
              newExtensions ==
                SelectSeq(currentExtensions,
                          LAMBDA id : id \notin Range(lastKnownExtensions))
          IN  IF Len(newExtensions) > 0
              THEN /\ Len(timers) < MaxTimers
                   /\ lastKnownExtensions' = currentExtensions
                   /\ timers' = Append(timers, newExtensions)
              ELSE /\ lastKnownExtensions' = currentExtensions
                   /\ UNCHANGED timers
  /\ UNCHANGED <<autoDetect, newExtensionIds, newExtensionConflicts>>
  /\ UNCHANGED scanVars
  /\ UNCHANGED normVars
  /\ UNCHANGED resolveVars

\* a variant of the filter that keeps every group
everyConflict(allConflicts, ids) == allConflicts

\* the groups with a binding of one of the extensions ids
conflictsOfExtensions(allConflicts, ids) ==
  SelectSeq(allConflicts,
            LAMBDA conflict :
              \E k \in DOMAIN conflict.bindings :
                conflict.bindings[k].extensionId \in Range(ids))

\* a timer fires: scanNewExtensionConflicts(newExtensions), up to the warning
\* message it shows
ScanNewExtensionConflicts(showNotifications) ==
  /\ pc = "idle"
  /\ timers # <<>>
  /\ timers' = Tail(timers)
  /\ IF collectThrows(extensions, platform)
     THEN /\ pc' = "failed"
          /\ UNCHANGED <<allBindings, conflicts, newExtensionIds,
                         newExtensionConflicts>>
     ELSE LET bindings == collectAllKeybindings(extensions, platform)
              allConflicts ==
                findConflicts(bindings,
                              getUserDisabledCommands(keybindingsFile))
              shown == conflictsOfExtensions(allConflicts, Head(timers))
          IN  IF Len(shown) = 0 \/ ~showNotifications
              THEN /\ pc' = "idle"
                   /\ UNCHANGED <<allBindings, conflicts, newExtensionIds,
                                  newExtensionConflicts>>
              ELSE /\ pc' = "notified"
                   /\ allBindings' = bindings
                   /\ conflicts' = allConflicts
                   /\ newExtensionIds' = Head(timers)
                   /\ newExtensionConflicts' = shown
  /\ UNCHANGED <<extensions, platform, keybindingsFile>>
  /\ UNCHANGED <<lastKnownExtensions, autoDetect>>
  /\ UNCHANGED normVars
  /\ UNCHANGED resolveVars

\* "Ignore", or the message is closed
IgnoreConflicts ==
  /\ pc = "notified"
  /\ pc' = "idle"
  /\ allBindings' = <<>>
  /\ conflicts' = <<>>
  /\ newExtensionIds' = <<>>
  /\ newExtensionConflicts' = <<>>
  /\ UNCHANGED <<extensions, platform, keybindingsFile>>
  /\ UNCHANGED <<lastKnownExtensions, autoDetect, timers>>
  /\ UNCHANGED normVars
  /\ UNCHANGED resolveVars

\* "Resolve Now": processConflictResolution shows the groups of the new
\* extensions
ResolveNow ==
  /\ pc = "notified"
  /\ pc' = "scanned"
  /\ conflicts' = newExtensionConflicts
  /\ UNCHANGED <<extensions, platform, keybindingsFile, allBindings>>
  /\ UNCHANGED autoVars
  /\ UNCHANGED normVars
  /\ UNCHANGED resolveVars

NextAuto ==
  \/ \E id \in InstallableIds, keybindings \in NewKeybindings :
       InstallExtensionWith(id, keybindings)
  \/ \E i \in DOMAIN extensions : UninstallExtension(i)
  \/ \E value \in BOOLEAN : SetAutoDetect(value)
  \/ OnDidChange
  \/ \E showNotifications \in BOOLEAN :
       ScanNewExtensionConflicts(showNotifications)
  \/ IgnoreConflicts
  \/ ResolveNow
  \/ DismissConflicts

SpecAuto == InitAuto /\ [][NextAuto]_vars

(***************************************************************************)
(* Properties of a scan.                                                   *)
(***************************************************************************)
Scanned == pc = "scanned"

extensionIdsOf(bindings) == {bindings[i].extensionId : i \in DOMAIN bindings}

\* the commands the records of keybindings.json turn off: a command written
\* with the '-' prefix, or the command of a record whose key is empty or absent
DisabledCommandSet ==
  IF keybindingsFile.exists /\ keybindingsFile.content.kind = "array"
  THEN LET records == Range(keybindingsFile.content.value)
           named == {r \in records : r.command.kind = "string"}
           removed == {r \in named :
                         r.command.value # <<>> /\ Head(r.command.value) = "-"}
           emptied == {r \in named \ removed :
                         /\ r.command.value # <<>>
                         /\ r.key.kind = "undefined" \/ r.key.value = <<>>}
       IN  {Tail(r.command.value) : r \in removed}
             \cup {r.command.value : r \in emptied}
  ELSE {}

\* the collected bindings on key k whose command is not disabled
liveOn(k) ==
  SelectSeq(allBindings,
            LAMBDA b : b.key = k /\ b.command \notin DisabledCommandSet)

collectedKeys == {allBindings[i].key : i \in DOMAIN allBindings}

reportedKeys == {conflicts[i].key : i \in DOMAIN conflicts}

\* C1: every conflict group a scan returns has at least two bindings, and
\* they come from at least two distinct extension identifiers.
C1_GroupsSpanExtensions ==
  Scanned =>
    \A i \in DOMAIN conflicts :
      /\ Len(conflicts[i].bindings) >= 2
      /\ Cardinality(extensionIdsOf(conflicts[i].bindings)) >= 2

C1_Witness ==
  /\ Scanned
  /\ \E i \in DOMAIN conflicts :
       /\ Len(conflicts[i].bindings) = 3
       /\ Cardinality(extensionIdsOf(conflicts[i].bindings)) = 2

\* C2: a key has a group in the output exactly when its live (not disabled)
\* collected bindings number more than one and span more than one
\* extension; the group holds exactly those bindings, and no two groups
\* have the same key.
C2_GroupsAreTheCrossExtensionKeys ==
  Scanned =>
    /\ \A k \in collectedKeys \cup reportedKeys :
         (k \in reportedKeys) <=>
           /\ Len(liveOn(k)) > 1
           /\ Cardinality(extensionIdsOf(liveOn(k))) > 1
    /\ \A i \in DOMAIN conflicts :
         conflicts[i].bindings = liveOn(conflicts[i].key)
    /\ \A i, j \in DOMAIN conflicts :
         conflicts[i].key = conflicts[j].key => i = j

\* ctrl+k ctrl+s of one extension and ctrl+K ctrl+S of another make one group
\* of two, while a further key of the scan makes none
C2_Witness ==
  /\ Scanned
  /\ Len(conflicts) = 1
  /\ conflicts[1].key = kChord
  /\ Len(conflicts[1].bindings) = 2
  /\ collectedKeys # {kChord}

\* C3: a disabled command is in no binding of any returned group, and a key
\* left with a single live binding has no group.
C3_DisabledCommandsExcluded ==
  Scanned =>
    /\ \A i \in DOMAIN conflicts :
         \A j \in DOMAIN conflicts[i].bindings :
           conflicts[i].bindings[j].command \notin DisabledCommandSet
    /\ \A k \in collectedKeys :
         Len(liveOn(k)) <= 1 => k \notin reportedKeys

\* a disabled command is bound to a key whose other bindings still conflict
C3_Witness ==
  /\ Scanned
  /\ \E i \in DOMAIN allBindings :
       /\ allBindings[i].command \in DisabledCommandSet
       /\ allBindings[i].key \in reportedKeys

\* two bindings of one group that one extension declares for one command,
\* differing only by their when clause
sameExtensionVariants(g, i, j) ==
  /\ i # j
  /\ g.bindings[i].extensionId = g.bindings[j].extensionId
  /\ g.bindings[i].command = g.bindings[j].command
  /\ g.bindings[i].when # g.bindings[j].when

\* C4 as claimed: such two bindings are never together in a reported group,
\* whatever the other extensions bind.
C4_SameExtensionNeverTogether ==
  Scanned =>
    \A g \in Range(conflicts) :
      \A i, j \in DOMAIN g.bindings : ~sameExtensionVariants(g, i, j)

\* C4 amended: such two bindings are together in a reported group only when
\* another extension has a live binding on the same key, which is then in
\* the group too; a key that only one extension binds has no group.
C4_SameExtensionOnlyWithAnother ==
  Scanned =>
    /\ \A g \in Range(conflicts) :
         \A i, j \in DOMAIN g.bindings :
           sameExtensionVariants(g, i, j) =>
             \E m \in DOMAIN g.bindings :
               g.bindings[m].extensionId # g.bindings[i].extensionId
    /\ \A k \in collectedKeys :
         Cardinality(extensionIdsOf(liveOn(k))) <= 1 => k \notin reportedKeys

\* one extension binds a key under two when clauses and no other extension
\* binds it: nothing is reported
C4_Witness ==
  /\ Scanned
  /\ conflicts = <<>>
  /\ \E i, j \in DOMAIN allBindings :
       /\ i # j
       /\ allBindings[i].key = allBindings[j].key
       /\ allBindings[i].command = allBindings[j].command
       /\ allBindings[i].when # allBindings[j].when
       /\ allBindings[i].command \notin DisabledCommandSet

\* the UTF-16 code units of the characters of key strings, in ascending order
codeUnitOrder ==
  <<"\t", " ", "+", ",", "-", ".", "/",
    "0", "1", "2", "3", "4", "5", "6", "7", "8", "9",
    ";", "=", "[", "]">> \o LowerChars

\* a < b in lexicographic order of code units
RECURSIVE lexicographicallyLess(_, _)
lexicographicallyLess(a, b) ==
  IF b = <<>> THEN FALSE
  ELSE IF a = <<>> THEN TRUE
  ELSE IF Head(a) = Head(b) THEN lexicographicallyLess(Tail(a), Tail(b))
  ELSE indexOf(codeUnitOrder, Head(a)) < indexOf(codeUnitOrder, Head(b))

\* C5 as claimed: the returned groups are in ascending lexicographic order
\* of their keys.
C5_SortedLexicographically ==
  Scanned =>
    \A i \in 1..(Len(conflicts) - 1) :
      lexicographicallyLess(conflicts[i].key, conflicts[i + 1].key)

\* C5 amended: the returned groups are in ascending order of their keys
\* under localeCompare, and their keys are distinct.
C5_SortedByLocaleCompare ==
  Scanned =>
    \A i \in 1..(Len(conflicts) - 1) :
      /\ localeCompare(conflicts[i].key, conflicts[i + 1].key) <= 0
      /\ conflicts[i].key # conflicts[i + 1].key

\* two groups come back in the order opposite to that of their insertion
C5_Witness ==
  /\ Scanned
  /\ Len(conflicts) = 2
  /\ conflicts[1].key = kSemicolon
  /\ conflicts[2].key = kSlash
  /\ allBindings[1].key = kSlash

(***************************************************************************)
(* Properties of the key normalizer.                                       *)
(***************************************************************************)
Normalized == normalizedKey # Absent

Renormalized == renormalizedKey # Absent

\* the format the input validation asks of a key string: every chord
\* sub-combination is made of non-empty '+'-separated parts
wellFormedKey(key) ==
  LET normalized == trim(toLowerCase(key))
  IN  /\ normalized # <<>>
      /\ \A chord \in Range(split(normalized, " ")) :
           \A k \in Range(split(chord, "+")) : trim(k) # <<>>

subCombos(key) == split(trim(toLowerCase(key)), " ")

\* C6: normalizing a normalized well-formed key changes nothing.
C6_Idempotent ==
  (Renormalized /\ wellFormedKey(rawKey)) => renormalizedKey = normalizedKey

\* a chord with a synonym modifier, which normalization rewrote
C6_Witness ==
  /\ Renormalized
  /\ wellFormedKey(rawKey)
  /\ Len(subCombos(rawKey)) = 2
  /\ normalizedKey.value # rawKey
  /\ subCombos(rawKey)[2] = ctrl \o <<"+">> \o control \o <<"+", "k">>

orderingsOf(seq) ==
  {[i \in DOMAIN seq |-> seq[f[i]]] :
     f \in {g \in [DOMAIN seq -> DOMAIN seq] :
              \A i, j \in DOMAIN seq : g[i] = g[j] => i = j}}

\* a single combination: distinct modifiers of the vocabulary, then a main key
modifiersThenMainKey(key) ==
  LET parts == split(key, "+")
      modifiers == SubSeq(parts, 1, Len(parts) - 1)
  IN  /\ ~includes(key, " ")
      /\ Len(parts) >= 2
      /\ parts[Len(parts)] \notin ModifierWords
      /\ Range(modifiers) \subseteq ModifierWords
      /\ Cardinality(Range(modifiers)) = Len(modifiers)

\* the members of modifierOrder among parts are in the order of modifierOrder
inPrecedenceOrder(parts) ==
  \A i, j \in DOMAIN parts :
    (i < j /\ indexOf(modifierOrder, parts[i]) >= 0
           /\ indexOf(modifierOrder, parts[j]) >= 0)
      => indexOf(modifierOrder, parts[i]) < indexOf(modifierOrder, parts[j])

\* C7: every order of the modifiers of a combination normalizes to the same
\* string, the modifiers in precedence order and then the main key.
C7_ModifierOrderIrrelevant ==
  (Normalized /\ modifiersThenMainKey(rawKey)) =>
    LET parts == split(rawKey, "+")
        mainKey == parts[Len(parts)]
        result == split(normalizedKey.value, "+")
    IN  /\ \A p \in orderingsOf(SubSeq(parts, 1, Len(parts) - 1)) :
             normalizeKey(join(p \o <<mainKey>>, "+")) = normalizedKey.value
        /\ result[Len(result)] = mainKey
        /\ inPrecedenceOrder(result)

\* seq with its elements i < j exchanged
swap(seq, i, j) ==
  SubSeq(seq, 1, i - 1) \o <<seq[j]>> \o SubSeq(seq, i + 1, j - 1)
    \o <<seq[i]>> \o SubSeq(seq, j + 1, Len(seq))

\* C8: a chord of n sub-combinations normalizes to n sub-combinations in the
\* same order, each the normalization of its own; exchanging two that
\* normalize differently changes the result, and a chord of two or more
\* never normalizes to what one of its sub-combinations normalizes to.
C8_ChordsKeptInOrder ==
  Normalized =>
    LET subs == subCombos(rawKey)
        each == map(normalizeKey, subs)
        result == split(normalizedKey.value, " ")
    IN  /\ result = each
        /\ \A i, j \in DOMAIN subs :
             (i < j /\ each[i] # each[j]) =>
               normalizeKey(join(swap(subs, i, j), " ")) # normalizedKey.value
        /\ Len(subs) >= 2 => normalizedKey.value \notin Range(each)

\* a chord of two different sub-combinations, one of them rewritten
C8_Witness ==
  /\ Normalized
  /\ rawKey = plainKey
  /\ Len(subCombos(rawKey)) = 2
  /\ normalizeKey(subCombos(rawKey)[1]) # normalizeKey(subCombos(rawKey)[2])
  /\ normalizedKey.value # rawKey

\* C9: a key normalizes to the same string in any letter case and with any
\* white space around it and around its '+'-separated parts.
C9_CaseAndWhiteSpaceIrrelevant ==
  Normalized => normalizedKey.value = normalizeKey(plainKey)

(***************************************************************************)
(* Properties of collection.                                               *)
(***************************************************************************)
theExtension == extensions[1]

theEntry == theExtension.packageJSON.keybindings.value[1]

platformFieldOf(kb) ==
  CASE platform = "darwin" -> kb.mac
    [] platform = "linux" -> kb.linux
    [] platform = "win32" -> kb.win

\* the non-empty strings a field holds
valuesOf(field) ==
  SelectSeq(IF field.kind = "array" THEN field.value
            ELSE IF field.kind = "string" THEN <<field.value>>
            ELSE <<>>,
            LAMBDA k : k # <<>>)

\* one binding for each key, with the metadata of the entry and its extension
bindingsFor(keys) ==
  [i \in DOMAIN keys |->
     [key |-> normalizeKey(keys[i]),
      command |-> theEntry.command,
      when |-> theEntry.when,
      extensionId |-> theExtension.id,
      extensionName |-> <<"X">>]]

\* C10 as claimed: the platform's field is used when it is present, the
\* generic key when it is absent.
C10_PlatformFieldWhenPresent ==
  Scanned =>
    allBindings =
      bindingsFor(IF platformFieldOf(theEntry).kind # "undefined"
                  THEN valuesOf(platformFieldOf(theEntry))
                  ELSE valuesOf(theEntry.key))

\* C10 amended: the platform's field is used when it is present and not the
\* empty string, the generic key otherwise.
C10_PlatformFieldWhenNotEmpty ==
  Scanned =>
    allBindings =
      bindingsFor(IF /\ platformFieldOf(theEntry).kind # "undefined"
                     /\ platformFieldOf(theEntry) # Str(<<>>)
                  THEN valuesOf(platformFieldOf(theEntry))
                  ELSE valuesOf(theEntry.key))

\* a list in the platform's field yields a binding for each of its keys, not
\* the generic key nor the key of another platform
C10_Witness ==
  /\ Scanned
  /\ platform = "linux"
  /\ theEntry.linux = Arr(<<kSemicolon, <<>>, kChordUpper>>)
  /\ theEntry.key = Str(kSlash)
  /\ theEntry.mac = Str(kSlash)
  /\ Len(allBindings) = 2
  /\ allBindings[2].key = kChord

(***************************************************************************)
(* Properties of scans over malformed input.                               *)
(***************************************************************************)
ScanEnded == pc \in {"scanned", "failed"}

wellFormedRecord(kb) ==
  IF kb = Null THEN FALSE ELSE kb.command.kind = "string"

\* the override list is missing, unreadable, or not a list of well-formed
\* records
malformedFile(file) ==
  \/ ~file.exists
  \/ file.content.kind # "array"
  \/ /\ file.content.kind = "array"
     /\ \E i \in DOMAIN file.content.value :
          ~wellFormedRecord(file.content.value[i])

malformedEntry(kb) == kb.key.kind \notin {"string", "array"}

contributionsOf(ext) ==
  IF truthy(ext.packageJSON.keybindings)
  THEN ext.packageJSON.keybindings.value ELSE <<>>

\* the manifests without their malformed contributions
withoutMalformed(exts) ==
  map(LAMBDA ext :
        IF truthy(ext.packageJSON.keybindings)
        THEN [ext EXCEPT !.packageJSON.keybindings =
                Arr(SelectSeq(ext.packageJSON.keybindings.value,
                              LAMBDA kb : ~malformedEntry(kb)))]
        ELSE ext,
      exts)

someMalformedEntry ==
  \E i \in DOMAIN extensions :
    \E j \in DOMAIN contributionsOf(extensions[i]) :
      malformedEntry(contributionsOf(extensions[i])[j])

\* C11: when keybindings.json is missing, unreadable or malformed, a scan
\* of well-formed manifests ends without failure and returns what it returns
\* with an empty override list.
C11_MalformedOverridesAreEmpty ==
  (ScanEnded /\ malformedFile(keybindingsFile) /\ ~someMalformedEntry) =>
    /\ pc = "scanned"
    /\ conflicts =
         findConflicts(collectAllKeybindings(extensions, platform), {})

\* C12: a scan of manifests with malformed contributions ends without
\* failure and returns the groups it returns for the same manifests without
\* the malformed contributions.
C12_MalformedEntriesSkipped ==
  (ScanEnded /\ someMalformedEntry) =>
    /\ pc = "scanned"
    /\ conflicts =
         findConflicts(collectAllKeybindings(withoutMalformed(extensions),
                                             platform),
                       getUserDisabledCommands(keybindingsFile))

(***************************************************************************)
(* Properties of the write-back.                                           *)
(***************************************************************************)
Resolved == pc = "resolved"

\* the override list a file holds; a file that is missing, blank or
\* unparseable holds no record
listOf(file) ==
  IF file.exists /\ file.content.kind = "array" THEN file.content.value
  ELSE <<>>

listBefore == listOf(resolution.before)

listAfter == listOf(keybindingsFile)

clauseOf(v) == IF v.kind = "string" /\ v.value # "" THEN v.value ELSE ""

\* record kb overrides the command of binding b under the same when clause
overrides(kb, b) ==
  IF kb = Null THEN FALSE
  ELSE /\ kb.command.kind = "string"
       /\ kb.command.value = b.command
       /\ clauseOf(kb.when) = clauseOf(b.when)

\* the first record of list that overrides b, 0 when there is none
firstOverride(list, b) ==
  IF \E i \in DOMAIN list : overrides(list[i], b)
  THEN CHOOSE i \in DOMAIN list :
         overrides(list[i], b) /\ \A j \in 1..(i - 1) : ~overrides(list[j], b)
  ELSE 0

disableRecord(b) ==
  [key |-> Str(<<>>), command |-> Str(b.command),
   when |-> IF clauseOf(b.when) = "" THEN Absent ELSE b.when]

removeRecord(b) ==
  [key |-> Str(b.key), command |-> Str(<<"-">> \o b.command),
   when |-> IF clauseOf(b.when) = "" THEN Absent ELSE b.when]

replaceRecord(b, key) ==
  [key |-> Str(trim(toLowerCase(key))), command |-> Str(b.command),
   when |-> IF clauseOf(b.when) = "" THEN Absent ELSE b.when]

reassignedPair ==
  <<removeRecord(resolution.bindings[1]),
    replaceRecord(resolution.bindings[1], resolution.newKey)>>

Reassigning == pc \in {"resolved", "failed"} /\ resolution.op = "reassign"

\* the bindings of another command on the canonical key of the replacement
usersOf(key, b) ==
  {i \in DOMAIN allBindings :
     /\ allBindings[i].key = normalizeKey(key)
     /\ allBindings[i].command # b.command}

\* C14: a reassignment to a key that a binding of another command uses is
\* refused, the message names that command and its extension, and
\* keybindings.json is as it was before the call.
C14_RefusedBeforeAnyWrite ==
  (Reassigning /\ usersOf(resolution.newKey, resolution.bindings[1]) # {}) =>
    /\ resolution.outcome = "refused"
    /\ \E i \in usersOf(resolution.newKey, resolution.bindings[1]) :
         /\ resolution.message.command = allBindings[i].command
         /\ resolution.message.extensionName = allBindings[i].extensionName
    /\ keybindingsFile = resolution.before

(***************************************************************************)
(* Properties of the input validation.                                     *)
(***************************************************************************)
Validated == pc = "input"

canonicalModifiers == {ctrl, cmd, alt, shift, meta, win}

keyToken(part) ==
  \/ Len(part) = 1 /\ part[1] \in Letters \cup Digits
  \/ Len(part) > 1 /\ part[1] = "f" /\ \A i \in 2..Len(part) : part[i] \in Digits

candidateCombos(value) ==
  map(LAMBDA combo : split(combo, "+"), split(trim(toLowerCase(value)), " "))

\* modifiers joined by '+' to one letter, digit or function key, in every
\* sub-combination
wellFormedCandidate(value) ==
  /\ trim(value) # <<>>
  /\ \A i \in DOMAIN candidateCombos(value) :
       LET parts == candidateCombos(value)[i]
       IN  /\ \A k \in 1..(Len(parts) - 1) : parts[k] \in canonicalModifiers
           /\ keyToken(parts[Len(parts)])

\* C15: validation answers with the conflicting command and extension when
\* the canonical form of the candidate is the key of a binding of another
\* command, and accepts a well-formed candidate whose canonical form no
\* binding has.
C15_RejectsCanonicalDuplicates ==
  Validated =>
    /\ usersOf(validation.value, validation.binding) # {} =>
         /\ validation.message # Absent
         /\ \E i \in usersOf(validation.value, validation.binding) :
              /\ validation.message.command = allBindings[i].command
              /\ validation.message.extensionName =
                   allBindings[i].extensionName
    /\ ( /\ wellFormedCandidate(validation.value)
         /\ \A i \in DOMAIN allBindings :
              allBindings[i].key # normalizeKey(validation.value) ) =>
         validation.message = Absent

\* some sub-combination of the candidate has parts and all of them are
\* modifiers
modifiersOnly(value) ==
  \E i \in DOMAIN candidateCombos(value) :
    \A k \in DOMAIN candidateCombos(value)[i] :
      candidateCombos(value)[i][k] \in canonicalModifiers

\* C16: validation rejects every candidate with a sub-combination that
\* consists of modifiers only, however many.
C16_RejectsModifierOnlyChords ==
  (Validated /\ modifiersOnly(validation.value)) =>
    validation.message # Absent

(***************************************************************************)
(* Properties of the scan after a resolution.                              *)
(***************************************************************************)
resolvedCommands ==
  {resolution.bindings[i].command : i \in DOMAIN resolution.bindings}

\* C19: the scan after a successful disableKeybindings or reassignKeybinding
\* returns no group with a binding of a resolved command.
C19_ResolvedCommandsLeaveTheGroups ==
  (Scanned /\ resolution # Absent) =>
    (resolution.outcome = "ok" =>
       \A i \in DOMAIN conflicts :
         \A k \in DOMAIN conflicts[i].bindings :
           conflicts[i].bindings[k].command \notin resolvedCommands)

(***************************************************************************)
(* Properties of the normalizer on synonyms of modifiers.                  *)
(***************************************************************************)
\* "control" is a synonym of ctrl
canonicalName(part) == IF part = control THEN ctrl ELSE part

\* every sub-combination of the key joins modifiers to a main key
modifiersAndMainKey(key) ==
  \A i \in DOMAIN split(key, " ") :
    LET parts == split(split(key, " ")[i], "+")
    IN  /\ Len(parts) > 1
        /\ ~isModifierKey(parts[Len(parts)])
        /\ \A k \in 1..(Len(parts) - 1) : isModifierKey(parts[k])

\* the key with every synonym replaced by the canonical name of the modifier
withCanonicalNames(key) ==
  join(map(LAMBDA combo : join(map(canonicalName, split(combo, "+")), "+"),
           split(key, " ")),
       " ")

\* C18: a key written with synonyms of modifiers normalizes to the same
\* string as the key written with their canonical names.
C18_SynonymsAreCanonical ==
  (Normalized /\ modifiersAndMainKey(rawKey)) =>
    normalizedKey.value = normalizeKey(withCanonicalNames(rawKey))

(***************************************************************************)
(* Properties of the automatic detection.                                  *)
(***************************************************************************)
involves(group, ids) ==
  \E k \in DOMAIN group.bindings : group.bindings[k].extensionId \in Range(ids)

\* the groups on show, in the warning message and then in the QuickPick, are
\* groups of the scan, and each has a binding of a new extension
shownInvolveNewExtensions ==
  /\ pc = "notified" =>
       /\ newExtensionConflicts # <<>>
       /\ \A i \in DOMAIN newExtensionConflicts :
            involves(newExtensionConflicts[i], newExtensionIds)
  /\ pc = "scanned" =>
       \A i \in DOMAIN conflicts : involves(conflicts[i], newExtensionIds)

\* a timer is set only with autoDetect enabled, and for ids that are
\* installed and were not in lastKnownExtensions
timersForNewExtensions ==
  Len(timers') > Len(timers) =>
    /\ autoDetect
    /\ timers'[Len(timers')] # <<>>
    /\ \A k \in DOMAIN timers'[Len(timers')] :
         /\ timers'[Len(timers')][k] \in Range(idsOf(extensions))
         /\ timers'[Len(timers')][k] \notin Range(lastKnownExtensions)

\* C17: every group the automatic scan shows has a binding of an extension
\* that was newly installed when the change event came; nothing is shown
\* when no group has one; and no scan is scheduled while autoDetect is
\* disabled.
C17_OnlyNewExtensionConflicts ==
  [](shownInvolveNewExtensions) /\ [][timersForNewExtensions]_vars

\* the automatic scan shows fewer groups than the scan found
C17_Witness ==
  /\ pc = "notified"
  /\ newExtensionConflicts # <<>>
  /\ Len(newExtensionConflicts) < Len(conflicts)

====
